---- MODULE Spec2Model ----
(***************************************************************************)
(* The three MAX30101 sketches (v2.ino, v3.ino, v4.ino) as one state       *)
(* machine.  A behaviour runs exactly one sketch: it is chosen in Init,    *)
(* its setup() runs once and then its loop() runs again and again.  One    *)
(* action models one whole execution of setup() or of loop().              *)
(*                                                                         *)
(* The vendor driver (bioHub) and the millisecond clock are the            *)
(* environment: the status codes the driver returns, the readings it       *)
(* delivers and the time a call takes are inputs drawn from small sets.    *)
(***************************************************************************)
EXTENDS Integers, Sequences, FiniteSets, Bags, TLC

VARIABLES
  sketch,                \* which sketch runs: "v2", "v3" or "v4"
  pc,                    \* "setup" before setup() has run, "loop" after
  now,                   \* millis() when the next handler starts
  body,                  \* bioData body: the most recent sensor reading
  out,                   \* the lines the last handler wrote to Serial
  v4_topReadings,        \* v4: bioData topReadings[NUM_READINGS]
  v4_lastReportTime,     \* v4: unsigned long lastReportTime
  v3_readings,           \* v3: readings[0 .. readingCount-1]
  v3_readingCount,       \* v3: int readingCount
  v3_lastDisplayTime,    \* v3: unsigned long lastDisplayTime
  v2_validReadingsCount, \* v2: int validReadingsCount
  v2_heartRateSum,       \* v2: float heartRateSum
  v2_oxygenSum,          \* v2: float oxygenSum
  v2_irLedSum,           \* v2: float irLedSum
  v2_redLedSum,          \* v2: float redLedSum
  v2_lastDisplayTime,    \* v2: unsigned long lastDisplayTime
  varied,                \* environment: free sensor choices used in this window
  loopStart,             \* history: millis() when setup() returned
  window,                \* history: bag of the readings with confidence > 50
                         \*   read since the accumulation state was last reset
  windowStart,           \* history: millis() when the current window began
  last,                  \* history: what the last handler did (see NoObs)
  real,                  \* history: time as plain numbers of ms that never
                         \*   wrap, counted from the initial state (see RealTime)
  mantissa               \* the build: the significand bits of the type double
                         \*   Serial.print(float, digits) computes in

vars == <<sketch, pc, now, body, out,
          v4_topReadings, v4_lastReportTime,
          v3_readings, v3_readingCount, v3_lastDisplayTime,
          v2_validReadingsCount, v2_heartRateSum, v2_oxygenSum,
          v2_irLedSum, v2_redLedSum, v2_lastDisplayTime,
          varied, loopStart, window, windowStart, last, real, mantissa>>

v2vars == <<v2_validReadingsCount, v2_heartRateSum, v2_oxygenSum,
            v2_irLedSum, v2_redLedSum, v2_lastDisplayTime>>
v3vars == <<v3_readings, v3_readingCount, v3_lastDisplayTime>>
v4vars == <<v4_topReadings, v4_lastReportTime>>

----------------------------------------------------------------------------
(* Program constants.                                                      *)

NUM_READINGS == 5
reportInterval == 1000
MAX_READINGS == 100
v3_DISPLAY_INTERVAL == 1000
TARGET_READINGS == 5
v2_DISPLAY_INTERVAL == 1000
\* unsigned long is 32 bits wide on the boards these sketches target; a value
\* is kept as <<high half, low half>>, two digits in base 2^16
HALF == 65536
\* if (body.confidence > 50): the acceptance threshold of all three sketches
CONF_THRESHOLD == 50
\* delay(2000) at the end of v4's setup()
v4_SETUP_DELAY == 2000
\* delay(4000) at the end of v3's setup()
v3_SETUP_DELAY == 4000
\* delay(4000) and 20 stabilisation reads with delay(100) each in v2's setup()
v2_SETUP_DELAY == 4000 + 20 * 100
\* delay(10) at the end of v3's loop()
v3_LOOP_DELAY == 10
\* delay(100) at the end of v2's loop()
v2_LOOP_DELAY == 100

(* Bounds of the model.                                                    *)

\* loop() runs while less than Horizon ms have passed since setup() returned
Horizon == 1100
\* the sensor delivers any reading of Readings for the first MaxVaried polls
\* of a window (v3, which polls every 10 ms: the first v3_MaxVaried) and
\* SteadyReading from then on
MaxVaried == 4
v3_MaxVaried == 2

----------------------------------------------------------------------------
(* The environment: clock, driver status codes, sensor readings.           *)

\* the unsigned long with value n, for 0 <= n < 2^16
U32(n) == <<0, n>>
\* the free-running counter behind millis(), d ms (d < 2^16) after it read t:
\* it wraps at 2^32
Millis(t, d) ==
  LET lo == t[2] + d
  IN  <<(t[1] + lo \div HALF) % HALF, lo % HALF>>
\* mutant: the difference is taken in a wider signed type, where it is negative
\* (never at least the interval) once millis() has wrapped below b
Elapsed_Signed(a, b) ==
  IF a[1] < b[1] \/ (a[1] = b[1] /\ a[2] < b[2])
  THEN <<0, 0>>
  ELSE <<a[1] - b[1] - (IF a[2] < b[2] THEN 1 ELSE 0), (a[2] - b[2]) % HALF>>

\* a - b as the unsigned long subtraction "millis() - lastReportTime"
Elapsed(a, b) ==
  LET lo == a[2] - b[2]
      borrow == IF lo < 0 THEN 1 ELSE 0
  IN  <<(a[1] - b[1] - borrow) % HALF, lo % HALF>>
\* u >= n for an unsigned long u and a number 0 <= n < 2^16
AtLeast(u, n) == u[1] > 0 \/ u[2] >= n
\* u / 1000 for an unsigned long u
Seconds(u) == u[1] * 65 + (u[1] * 536 + u[2]) \div 1000

\* the codes a driver call returns: 0 is success, the others are errors
StatusCodes == {0, 1, 255}

Reading(hr, conf, oxy, st, ir, red) ==
  [heartRate |-> hr, confidence |-> conf, oxygen |-> oxy,
   status |-> st, irLed |-> ir, redLed |-> red]

\* the value of a bioData object in static storage before anything is stored
ZeroReading == Reading(0, 0, 0, 0, 0, 0)

\* what the sensor delivers once it is steady
SteadyReading == Reading(80, 75, 98, 3, 1200, 900)

\* the readings bioHub.readSensorBpm() can deliver
Readings ==
  { Reading(64, 50, 96, 3, 1000, 700),     \* confidence exactly at the threshold
    Reading(72, 51, 97, 3, 1000, 700),     \* confidence just above it
    SteadyReading,
    Reading(91, 100, 99, 3, 1200, 900),
    Reading(0, 90, 0, 0, 1000, 700) }      \* confident, but no pulse, no SpO2

VariedLimit == IF sketch = "v3" THEN v3_MaxVaried ELSE MaxVaried
SensorChoices == IF varied < VariedLimit THEN Readings ELSE {SteadyReading}

----------------------------------------------------------------------------
(* Serial output.  A line is a tuple: its text, then the numbers printed.  *)

\* the significand widths of double: 24 bits on the AVR boards, where double
\* is float, 53 bits on ARM and ESP32
DoubleWidths == {24, 53}

\* 2^k modulo n
RECURSIVE Pow2Mod(_, _)
Pow2Mod(k, n) == IF k = 0 THEN 1 % n ELSE (2 * Pow2Mod(k - 1, n)) % n

\* the binary exponent of m / s (m, s > 0): the e with 2^e <= m / s < 2^(e + 1)
RECURSIVE ExponentOf(_, _)
ExponentOf(m, s) ==
  IF m < s THEN ExponentOf(2 * m, s) - 1
  ELSE IF m < 2 * s THEN 0
  ELSE ExponentOf(m, 2 * s) + 1

\* Serial.print(float, digits) of the float num / den, for the divisors 1..5
\* of the sketches and digits 0..2: the digits printed, as an integer (62.7 with
\* one digit is 627).  Print::printFloat adds 0.5 / 10^digits to the value and
\* cuts the sum off after `digits` decimals.  When the value lies exactly half
\* way between two printed values, the exact sum m / 10^digits is a printed
\* value itself, but unless it is a binary fraction the addition rounds it to
\* a neighbour on the grid of the doubles with `bits` significand bits: to the
\* one above, and m is printed, or to the one below, and m - 1 is printed.
PrintFloat(num, den, digits, bits) ==
  LET scale == IF digits = 0 THEN 1 ELSE IF digits = 1 THEN 10 ELSE 100
      fives == IF digits = 0 THEN 1 ELSE IF digits = 1 THEN 5 ELSE 25
      m == (2 * num * scale + den) \div (2 * den)
      halfWay == (2 * num * scale + den) % (2 * den) = 0
      \* the sum is a multiple of 2^(-k) between 2^e and 2^(e + 1)
      k == bits - 1 - ExponentOf(m, scale)
      \* the fraction of m / scale * 2^k, in units of 1 / scale
      above == ((m % scale) * Pow2Mod(k, scale)) % scale
  IN  IF ~halfWay \/ m % fives = 0 THEN m
      \* 0.25 with one digit: the sum is just below 0.3 in both arithmetics,
      \* and 53-bit arithmetic rounds its product with 10.0 up to 3.0
      ELSE IF 4 * num = den /\ digits = 1 THEN 3
      ELSE IF 2 * above > scale THEN m ELSE m - 1

HasLine(o, text) == \E i \in DOMAIN o : o[i][1] = text
LineOf(o, text) == o[CHOOSE i \in DOMAIN o : o[i][1] = text]

RECURSIVE SumSeq(_)
SumSeq(s) == IF s = <<>> THEN 0 ELSE Head(s) + SumSeq(Tail(s))

Min(a, b) == IF a < b THEN a ELSE b

\* What the last handler did, for the history variable `last`:
\*   handler  "none", "setup" or "loop"
\*   codes    setup(): the status codes the four driver calls returned
\*   due      loop(): the elapsed-time test found the interval elapsed
\*   report   loop(): "average", "status" or "none" (nothing reported)
\*   at       loop(): millis() in the elapsed-time test
\*   span     a report: the time since the window began
\*   closed   a report: the bag `window` the report closed
\*   stored   loop(): the reading was taken into the accumulation state
\*   acc      loop(): the accumulation state after the reading was processed
\*            and before any report and reset
NoObs == [handler |-> "none", codes |-> <<>>, due |-> FALSE, report |-> "none",
          at |-> U32(0), span |-> U32(0), closed |-> EmptyBag, stored |-> FALSE,
          acc |-> <<>>]

\* The history variable `real`, in ms since the initial state, not wrapping:
\*   now      when the next handler starts
\*   ref      when the last report time (lastReportTime, lastDisplayTime) was set
\*   testAt   when the last elapsed-time test was made
\*   testRef  `ref` as it was when that test was made
RealTime(n, ref, testAt, testRef) ==
  [now |-> n, ref |-> ref, testAt |-> testAt, testRef |-> testRef]

----------------------------------------------------------------------------
(* setup(): the driver calls and what is printed for each status code.     *)

\* the lines setup() prints for begin(), configSensorBpm(), setPulseWidth(),
\* readPulseWidth(), setSampleRate() and readSampleRate(); result, e1, e2, e3
\* are the status codes returned, pw and sr the values read back
SetupLines(result, e1, e2, e3, pw, sr) ==
     (IF result = 0 THEN << <<"Sensor started!">> >> ELSE <<>>)
  \o << <<"Configuring Sensor....">> >>
  \o (IF e1 = 0 THEN << <<"Sensor configured.">> >>
      ELSE << <<"Error configuring sensor.">>, <<"Error: ", e1>> >>)
  \o (IF e2 = 0 THEN << <<"Pulse Width Set.">> >>
      ELSE << <<"Could not set Pulse Width.">>, <<"Error: ", e2>> >>)
  \o << <<"Pulse Width: ", pw>> >>
  \o (IF e3 = 0 THEN << <<"Sample Rate Set.">> >>
      ELSE << <<"Could not set Sample Rate!">>, <<"Error: ", e3>> >>)
  \o << <<"Sample rate is set to: ", sr>> >>

SetupObs(result, e1, e2, e3) ==
  [NoObs EXCEPT !.handler = "setup", !.codes = <<result, e1, e2, e3>>]

\* mutant: the reset clears the confidence and leaves the values
v4_Reset_ConfidenceOnly(top) ==
  [i \in 1..NUM_READINGS |-> [top[i] EXCEPT !.confidence = 0]]

\* the for loop that zeroes confidence, heartRate and oxygen of every slot
v4_Reset(top) ==
  [i \in 1..NUM_READINGS |->
     [top[i] EXCEPT !.confidence = 0, !.heartRate = 0, !.oxygen = 0]]

v4_setup ==
  /\ sketch = "v4" /\ pc = "setup"
  /\ \E result \in StatusCodes, e1 \in StatusCodes, e2 \in StatusCodes,
        e3 \in StatusCodes, pw \in {411}, sr \in {400} :
       /\ out' = SetupLines(result, e1, e2, e3, pw, sr)
                   \o << <<"Now collecting data. Averaged report will be displayed every second.">>,
                         <<"Make sure your finger is placed firmly on the sensor.">> >>
       /\ last' = SetupObs(result, e1, e2, e3)
  /\ v4_topReadings' = v4_Reset(v4_topReadings)
  /\ now' = Millis(now, v4_SETUP_DELAY)
  /\ real' = [real EXCEPT !.now = @ + v4_SETUP_DELAY]
  /\ loopStart' = now' /\ windowStart' = now'
  /\ pc' = "loop"
  /\ UNCHANGED <<sketch, mantissa, body, v4_lastReportTime, v3vars, v2vars,
                 varied, window>>

v3_setup ==
  /\ sketch = "v3" /\ pc = "setup"
  /\ \E result \in StatusCodes, e1 \in StatusCodes, e2 \in StatusCodes,
        e3 \in StatusCodes, pw \in {411}, sr \in {400} :
       /\ out' = SetupLines(result, e1, e2, e3, pw, sr)
                   \o << <<"Loading up the buffer with data....">> >>
       /\ last' = SetupObs(result, e1, e2, e3)
  /\ now' = Millis(now, v3_SETUP_DELAY)
  /\ real' = [real EXCEPT !.now = @ + v3_SETUP_DELAY,
                          !.ref = real.now + v3_SETUP_DELAY]
  /\ v3_lastDisplayTime' = now'
  /\ loopStart' = now' /\ windowStart' = now'
  /\ pc' = "loop"
  /\ UNCHANGED <<sketch, mantissa, body, v3_readings, v3_readingCount, v4vars, v2vars,
                 varied, window>>

\* the 20 stabilisation reads of v2's setup(): each is printed, none is
\* accumulated; the sensor delivers b throughout
StabilisationLines(b) ==
  [i \in 1..20 |-> <<"Stabilization reading - HR: ", b.heartRate,
                     b.confidence, b.status>>]

v2_setup ==
  /\ sketch = "v2" /\ pc = "setup"
  /\ \E result \in StatusCodes, e1 \in StatusCodes, e2 \in StatusCodes,
        e3 \in StatusCodes, pw \in {411}, sr \in {400}, b \in Readings :
       /\ out' = SetupLines(result, e1, e2, e3, pw, sr)
                   \o << <<"Loading up the buffer with data....">>,
                         <<"Allowing sensor to stabilize...">> >>
                   \o StabilisationLines(b)
                   \o << <<"Starting data collection...">>,
                         <<"Only readings with confidence > 50 will be used for averaging.">>,
                         <<"Displaying averages of 5 valid readings every second.">>,
                         <<"----------------------------------------">> >>
       /\ body' = b
       /\ last' = SetupObs(result, e1, e2, e3)
  /\ now' = Millis(now, v2_SETUP_DELAY)
  /\ real' = [real EXCEPT !.now = @ + v2_SETUP_DELAY,
                          !.ref = real.now + v2_SETUP_DELAY]
  /\ v2_lastDisplayTime' = now'
  /\ loopStart' = now' /\ windowStart' = now'
  /\ pc' = "loop"
  /\ UNCHANGED <<sketch, mantissa, v2_validReadingsCount, v2_heartRateSum,
                 v2_oxygenSum, v2_irLedSum, v2_redLedSum, v4vars, v3vars, varied, window>>

----------------------------------------------------------------------------
(* v4: replace-the-minimum top-5 buffer, report every reportInterval.      *)

\* the for loop that finds the slot with the lowest confidence: i is the slot
\* examined next, m the lowest found so far (slots are numbered from 1 here)
RECURSIVE MinConfidenceIndexFrom(_, _, _)
MinConfidenceIndexFrom(top, i, m) ==
  IF i > NUM_READINGS THEN m
  ELSE MinConfidenceIndexFrom(
         top, i + 1, IF top[i].confidence < top[m].confidence THEN i ELSE m)

\* mutant: the scan for the lowest slot is skipped, slot 0 is always the victim
minConfidenceIndex_NoScan(top) == 1

minConfidenceIndex(top) == MinConfidenceIndexFrom(top, 2, 1)

\* mutant: the threshold test admits confidence 50 (>= for >)
v4_Store_AtThreshold(top, b) ==
  IF b.confidence >= CONF_THRESHOLD
  THEN LET m == minConfidenceIndex(top)
       IN  IF b.confidence > top[m].confidence
           THEN [top EXCEPT ![m] = b]
           ELSE top
  ELSE top

\* lines 127-141: what topReadings is after the reading b has been processed
v4_Store(top, b) ==
  IF b.confidence > CONF_THRESHOLD
  THEN LET m == minConfidenceIndex(top)
       IN  IF b.confidence > top[m].confidence
           THEN [top EXCEPT ![m] = b]
           ELSE top
  ELSE top

\* the slots the summing loop includes
Populated(top) == {i \in 1..NUM_READINGS : top[i].confidence > 0}

RECURSIVE SumOver(_, _, _)
\* the sum of field f of arr over the index set S
SumOver(arr, S, f) ==
  IF S = {} THEN 0
  ELSE LET i == CHOOSE x \in S : TRUE
       IN  arr[i][f] + SumOver(arr, S \ {i}, f)

\* mutant: the averages are printed as soon as one slot is populated
v4_ShowsAverage_Any(validReadingsCount) == validReadingsCount > 0

\* whether v4's report prints the averages rather than the status line
v4_ShowsAverage(validReadingsCount) == validReadingsCount = NUM_READINGS

\* lines 148-188: the lines of v4's report; t is millis() as line 169 reads it
v4_ReportLines(top, t) ==
  LET totalHeartRate == SumOver(top, Populated(top), "heartRate")
      totalOxygen == SumOver(top, Populated(top), "oxygen")
      validReadingsCount == Cardinality(Populated(top))
  IN  << <<"----------------------------------------">> >>
   \o (IF v4_ShowsAverage(validReadingsCount)
       THEN << <<"Time: ", Seconds(t)>>,
               <<"Averaged Report (from top 5 readings):">>,
               <<"Average Heart Rate: ",
                 PrintFloat(totalHeartRate, NUM_READINGS, 2, mantissa)>>,
               <<"Average SpO2: ", PrintFloat(totalOxygen, NUM_READINGS, 2, mantissa)>> >>
       ELSE << <<"Collecting high-confidence data... (",
                 validReadingsCount, NUM_READINGS>> >>)
   \o << <<"----------------------------------------">> >>

\* line 145: the test that decides whether this iteration reports
v4_Due(t, lastReportTime) ==
  AtLeast(Elapsed(t, lastReportTime), reportInterval)

\* the bag `window` after the reading b has been read
Seen(w, b) == IF b.confidence > CONF_THRESHOLD THEN w (+) SetToBag({b}) ELSE w

v4_loop ==
  /\ sketch = "v4" /\ pc = "loop"
  /\ ~AtLeast(Elapsed(now, loopStart), Horizon)
  /\ \E b \in SensorChoices, r \in {150, 1000} :
       LET t1 == Millis(now, r)      \* millis() in the test of line 145
           top == v4_Store(v4_topReadings, b)
           due == v4_Due(t1, v4_lastReportTime)
       IN  /\ body' = b
           /\ IF due
              THEN \E lag \in {0, 1}, tick \in {0, 1} :
                   LET t2 == Millis(t1, lag)     \* millis() of line 146
                       t3 == Millis(t2, tick)    \* millis() of line 169 and after
                   IN
                   /\ v4_lastReportTime' = t2
                   /\ real' = RealTime(real.now + r + lag + tick,
                                       real.now + r + lag,
                                       real.now + r, real.ref)
                   /\ out' = v4_ReportLines(top, t3)
                   /\ v4_topReadings' = v4_Reset(top)
                   /\ now' = t3
                   /\ window' = EmptyBag
                   /\ windowStart' = t2
                   /\ varied' = 0
                   /\ last' = [NoObs EXCEPT
                         !.handler = "loop", !.due = TRUE,
                         !.report = IF HasLine(out', "Average Heart Rate: ")
                                    THEN "average" ELSE "status",
                         !.at = t1, !.span = Elapsed(t1, windowStart),
                         !.closed = Seen(window, b),
                         !.stored = (top # v4_topReadings), !.acc = top]
              ELSE /\ out' = <<>>
                   /\ real' = RealTime(real.now + r, real.ref,
                                       real.now + r, real.ref)
                   /\ v4_topReadings' = top
                   /\ now' = t1
                   /\ window' = Seen(window, b)
                   /\ varied' = Min(varied + 1, VariedLimit)
                   /\ last' = [NoObs EXCEPT !.handler = "loop", !.at = t1,
                                            !.stored = (top # v4_topReadings),
                                            !.acc = top]
                   /\ UNCHANGED <<v4_lastReportTime, windowStart>>
  /\ UNCHANGED <<sketch, mantissa, pc, loopStart, v3vars, v2vars>>

----------------------------------------------------------------------------
(* v3: collect every accepted reading, sort, average the first five.       *)

\* the swap of arr[j] and arr[j + 1] through temp
Swap(arr, a, b) == [arr EXCEPT ![a] = arr[b], ![b] = arr[a]]

\* the inner for loop of sortReadingsByConfidence: j runs from its current
\* value up to lim - 1 (lim is n - i - 1); the array is numbered from 1 here
RECURSIVE BubblePass(_, _, _)
BubblePass(arr, j, lim) ==
  IF j >= lim THEN arr
  ELSE IF arr[j + 1].confidence < arr[j + 2].confidence
       THEN BubblePass(Swap(arr, j + 1, j + 2), j + 1, lim)
       ELSE BubblePass(arr, j + 1, lim)

\* the outer for loop: i runs from its current value up to n - 2
RECURSIVE SortFrom(_, _, _)
SortFrom(arr, i, n) ==
  IF i >= n - 1 THEN arr
  ELSE SortFrom(BubblePass(arr, 0, n - i - 1), i + 1, n)

sortReadingsByConfidence(arr, n) == SortFrom(arr, 0, n)

\* line 125: whether the reading b is stored when readingCount readings are held
v3_Accepts(b, readingCount) ==
  b.confidence > CONF_THRESHOLD /\ readingCount < MAX_READINGS

\* lines 126-132: the six fields are copied into readings[readingCount], whose
\* members are int; every value of Readings fits an int of 16 bits
v3_Store(readings, b) == Append(readings, b)

\* line 137: whether this iteration reports
v3_Reports(currentTime, lastDisplayTime, readingCount) ==
  /\ AtLeast(Elapsed(currentTime, lastDisplayTime), v3_DISPLAY_INTERVAL)
  /\ readingCount > 0

\* lines 140-178: the lines of v3's report over the readingCount readings held;
\* the averages of the LED counts are long, their division truncates
v3_ReportLines(readings, readingCount) ==
  LET sorted == sortReadingsByConfidence(readings, readingCount)
      numToAverage == Min(5, readingCount)
      S == 1..numToAverage
  IN  << <<"=== AVERAGED RESULTS (Top ", numToAverage>>,
         <<"Average Heartrate: ",
           PrintFloat(SumOver(sorted, S, "heartRate"), numToAverage, 1, mantissa)>>,
         <<"Average Blood Oxygen: ",
           PrintFloat(SumOver(sorted, S, "oxygen"), numToAverage, 1, mantissa)>>,
         <<"Average Confidence: ",
           PrintFloat(SumOver(sorted, S, "confidence"), numToAverage, 1, mantissa)>>,
         <<"Average IR LED: ", SumOver(sorted, S, "irLed") \div numToAverage>>,
         <<"Average Red LED: ", SumOver(sorted, S, "redLed") \div numToAverage>>,
         <<"Total readings collected: ", readingCount>>,
         <<"================================">> >>

v3_loop ==
  /\ sketch = "v3" /\ pc = "loop"
  /\ ~AtLeast(Elapsed(now, loopStart), Horizon)
  /\ \E b \in SensorChoices, r \in {0, 1000} :
       LET currentTime == Millis(now, r)
           accepts == v3_Accepts(b, v3_readingCount)
           readings == IF accepts THEN v3_Store(v3_readings, b) ELSE v3_readings
           readingCount == IF accepts THEN v3_readingCount + 1
                           ELSE v3_readingCount
           due == AtLeast(Elapsed(currentTime, v3_lastDisplayTime),
                          v3_DISPLAY_INTERVAL)
       IN  /\ body' = b
           /\ now' = Millis(currentTime, v3_LOOP_DELAY)
           /\ real' = RealTime(
                 real.now + r + v3_LOOP_DELAY,
                 IF v3_Reports(currentTime, v3_lastDisplayTime, readingCount)
                 THEN real.now + r ELSE real.ref,
                 real.now + r, real.ref)
           /\ IF v3_Reports(currentTime, v3_lastDisplayTime, readingCount)
              THEN /\ out' = v3_ReportLines(readings, readingCount)
                   /\ v3_readings' = <<>>
                   /\ v3_readingCount' = 0
                   /\ v3_lastDisplayTime' = currentTime
                   /\ window' = EmptyBag
                   /\ windowStart' = currentTime
                   /\ varied' = 0
                   /\ last' = [NoObs EXCEPT
                         !.handler = "loop", !.due = due, !.report = "average",
                         !.at = currentTime,
                         !.span = Elapsed(currentTime, windowStart),
                         !.closed = Seen(window, b), !.stored = accepts,
                         !.acc = <<readingCount, readings>>]
              ELSE /\ out' = <<>>
                   /\ v3_readings' = readings
                   /\ v3_readingCount' = readingCount
                   /\ window' = Seen(window, b)
                   /\ varied' = Min(varied + 1, VariedLimit)
                   /\ last' = [NoObs EXCEPT !.handler = "loop", !.due = due,
                                            !.at = currentTime,
                                            !.stored = accepts,
                                            !.acc = <<readingCount, readings>>]
                   /\ UNCHANGED <<v3_lastDisplayTime, windowStart>>
  /\ UNCHANGED <<sketch, mantissa, pc, loopStart, v4vars, v2vars>>

----------------------------------------------------------------------------
(* v2: running sums of up to TARGET_READINGS accepted readings.            *)

\* mutant: the reading is accepted on its confidence alone
v2_Accepts_ConfidenceOnly(b) == b.confidence > CONF_THRESHOLD

\* line 152: whether the reading b is added to the running totals
v2_Accepts(b) ==
  b.confidence > CONF_THRESHOLD /\ b.heartRate > 0 /\ b.oxygen > 0

\* line 182: whether this iteration reports and resets
v2_Reports(currentTime, lastDisplayTime, validReadingsCount) ==
  \/ AtLeast(Elapsed(currentTime, lastDisplayTime), v2_DISPLAY_INTERVAL)
  \/ validReadingsCount >= TARGET_READINGS

\* lines 184-209: the lines of v2's report.  The sums are floats; they hold
\* sums of at most five integers below 2^24, which a float holds exactly
v2_ReportLines(validReadingsCount, heartRateSum, oxygenSum, irLedSum, redLedSum) ==
  IF validReadingsCount > 0
  THEN << <<"========================================">>,
          <<"AVERAGES (", validReadingsCount>>,
          <<"Average Heart Rate: ",
            PrintFloat(heartRateSum, validReadingsCount, 1, mantissa)>>,
          <<"Average Blood Oxygen: ",
            PrintFloat(oxygenSum, validReadingsCount, 1, mantissa)>>,
          <<"Average IR LED counts: ",
            PrintFloat(irLedSum, validReadingsCount, 0, mantissa)>>,
          <<"Average Red LED counts: ",
            PrintFloat(redLedSum, validReadingsCount, 0, mantissa)>>,
          <<"========================================">> >>
  ELSE << <<"No valid readings (confidence > 50) in the last second.">> >>

v2_loop ==
  /\ sketch = "v2" /\ pc = "loop"
  /\ ~AtLeast(Elapsed(now, loopStart), Horizon)
  /\ \E b \in SensorChoices, r \in {0, 1000} :
       LET accepts == v2_Accepts(b)
           count == IF accepts THEN v2_validReadingsCount + 1
                    ELSE v2_validReadingsCount
           hrSum == IF accepts THEN v2_heartRateSum + b.heartRate
                    ELSE v2_heartRateSum
           oxSum == IF accepts THEN v2_oxygenSum + b.oxygen ELSE v2_oxygenSum
           irSum == IF accepts THEN v2_irLedSum + b.irLed ELSE v2_irLedSum
           redSum == IF accepts THEN v2_redLedSum + b.redLed ELSE v2_redLedSum
           readLine == IF accepts
                       THEN <<"Valid reading #", count, b.heartRate, b.oxygen,
                              b.confidence>>
                       ELSE <<"Rejected - HR: ", b.heartRate, b.oxygen,
                              b.confidence, b.status>>
           currentTime == Millis(now, r)
           due == AtLeast(Elapsed(currentTime, v2_lastDisplayTime),
                          v2_DISPLAY_INTERVAL)
       IN  /\ body' = b
           /\ now' = Millis(currentTime, v2_LOOP_DELAY)
           /\ real' = RealTime(
                 real.now + r + v2_LOOP_DELAY,
                 IF v2_Reports(currentTime, v2_lastDisplayTime, count)
                 THEN real.now + r ELSE real.ref,
                 real.now + r, real.ref)
           /\ IF v2_Reports(currentTime, v2_lastDisplayTime, count)
              THEN /\ out' = <<readLine>>
                        \o v2_ReportLines(count, hrSum, oxSum, irSum, redSum)
                   /\ v2_validReadingsCount' = 0
                   /\ v2_heartRateSum' = 0
                   /\ v2_oxygenSum' = 0
                   /\ v2_irLedSum' = 0
                   /\ v2_redLedSum' = 0
                   /\ v2_lastDisplayTime' = currentTime
                   /\ window' = EmptyBag
                   /\ windowStart' = currentTime
                   /\ varied' = 0
                   /\ last' = [NoObs EXCEPT
                         !.handler = "loop", !.due = due,
                         !.report = IF count > 0 THEN "average" ELSE "status",
                         !.at = currentTime,
                         !.span = Elapsed(currentTime, windowStart),
                         !.closed = Seen(window, b), !.stored = accepts,
                         !.acc = <<count, hrSum, oxSum, irSum, redSum>>]
              ELSE /\ out' = <<readLine>>
                   /\ v2_validReadingsCount' = count
                   /\ v2_heartRateSum' = hrSum
                   /\ v2_oxygenSum' = oxSum
                   /\ v2_irLedSum' = irSum
                   /\ v2_redLedSum' = redSum
                   /\ window' = Seen(window, b)
                   /\ varied' = Min(varied + 1, VariedLimit)
                   /\ last' = [NoObs EXCEPT !.handler = "loop", !.due = due,
                                            !.at = currentTime,
                                            !.stored = accepts,
                                            !.acc = <<count, hrSum, oxSum, irSum,
                                                      redSum>>]
                   /\ UNCHANGED <<v2_lastDisplayTime, windowStart>>
  /\ UNCHANGED <<sketch, mantissa, pc, loopStart, v4vars, v3vars>>

----------------------------------------------------------------------------
Init ==
  /\ sketch \in {"v2", "v3", "v4"}
  /\ pc = "setup"
  /\ now = U32(0)
  /\ body = ZeroReading
  /\ out = <<>>
  /\ v4_topReadings = [i \in 1..NUM_READINGS |-> ZeroReading]
  /\ v4_lastReportTime = U32(0)
  /\ v3_readings = <<>>
  /\ v3_readingCount = 0
  /\ v3_lastDisplayTime = U32(0)
  /\ v2_validReadingsCount = 0
  /\ v2_heartRateSum = 0
  /\ v2_oxygenSum = 0
  /\ v2_irLedSum = 0
  /\ v2_redLedSum = 0
  /\ v2_lastDisplayTime = U32(0)
  /\ varied = 0
  /\ loopStart = U32(0)
  /\ window = EmptyBag
  /\ windowStart = U32(0)
  /\ last = NoObs
  /\ real = RealTime(0, 0, 0, 0)
  /\ mantissa \in DoubleWidths

Next ==
  \/ v4_setup
  \/ v4_loop
  \/ v3_setup
  \/ v3_loop
  \/ v2_setup
  \/ v2_loop

Spec == Init /\ [][Next]_vars

----------------------------------------------------------------------------
(* The same sketches followed from a report made 49.7 days after the       *)
(* start, shortly before millis() wraps from 2^32 - 1 to 0.                *)

\* millis() at that report: 2^32 - 1000 and 2^32 - 500
WrapStarts == {<<HALF - 1, HALF - 1000>>, <<HALF - 1, HALF - 500>>}

\* the state in which the iteration of loop() that made the report at T leaves
\* the sketch: the accumulation state reset, the last report time T, and the
\* next iteration due to start after the delay that ends loop()
InitWrap ==
  /\ sketch \in {"v2", "v3", "v4"}
  /\ pc = "loop"
  /\ \E T \in WrapStarts :
       /\ loopStart = T
       /\ windowStart = T
       /\ v4_lastReportTime = IF sketch = "v4" THEN T ELSE U32(0)
       /\ v3_lastDisplayTime = IF sketch = "v3" THEN T ELSE U32(0)
       /\ v2_lastDisplayTime = IF sketch = "v2" THEN T ELSE U32(0)
       /\ now = IF sketch = "v4" THEN T
                ELSE IF sketch = "v3" THEN Millis(T, v3_LOOP_DELAY)
                ELSE Millis(T, v2_LOOP_DELAY)
  /\ real = RealTime(IF sketch = "v4" THEN 0
                     ELSE IF sketch = "v3" THEN v3_LOOP_DELAY
                     ELSE v2_LOOP_DELAY, 0, 0, 0)
  /\ body = ZeroReading
  /\ out = <<>>
  /\ v4_topReadings = [i \in 1..NUM_READINGS |-> ZeroReading]
  /\ v3_readings = <<>>
  /\ v3_readingCount = 0
  /\ v2_validReadingsCount = 0
  /\ v2_heartRateSum = 0
  /\ v2_oxygenSum = 0
  /\ v2_irLedSum = 0
  /\ v2_redLedSum = 0
  /\ varied = 0
  /\ window = EmptyBag
  /\ last = NoObs
  /\ mantissa \in DoubleWidths

NextLoop ==
  \/ v4_loop
  \/ v3_loop
  \/ v2_loop

SpecWrap == InitWrap /\ [][NextLoop]_vars

----------------------------------------------------------------------------
(* Operators the properties are stated with.                               *)

Max(S) == CHOOSE m \in S : \A x \in S : x <= m

\* the k largest members of the bag of numbers B, largest first
RECURSIVE LargestOf(_, _)
LargestOf(B, k) ==
  IF k = 0 \/ B = EmptyBag THEN <<>>
  ELSE LET m == Max(BagToSet(B))
       IN  <<m>> \o LargestOf(B (-) SetToBag({m}), k - 1)

\* the bag of the values of field f over the index set S of the array arr
FieldBag(arr, S, f) ==
  [v \in {arr[i][f] : i \in S} |-> Cardinality({i \in S : arr[i][f] = v})]

\* the bag of the confidences of a bag of readings
ConfidenceOf(r) == r.confidence
ConfidencesOf(w) == BagOfAll(ConfidenceOf, w)

\* the sum of field f over the bag of readings w
RECURSIVE BagSum(_, _)
BagSum(w, f) ==
  IF w = EmptyBag THEN 0
  ELSE LET r == CHOOSE x \in BagToSet(w) : TRUE
       IN  r[f] + BagSum(w (-) SetToBag({r}), f)

\* the accumulation state of the sketch that runs
Acc ==
  IF sketch = "v4" THEN v4_topReadings
  ELSE IF sketch = "v3" THEN <<v3_readingCount, v3_readings>>
  ELSE <<v2_validReadingsCount, v2_heartRateSum, v2_oxygenSum, v2_irLedSum,
         v2_redLedSum>>

----------------------------------------------------------------------------
(* C1: in v4, whatever readings loop() has processed since the last reset, *)
(* the confidences held in the populated slots of topReadings are, as a    *)
(* multiset, the min(5, n) largest confidences among the n readings with   *)
(* confidence > 50 read since that reset, and min(5, n) slots are          *)
(* populated.                                                              *)
C1_TopConfidencesKept ==
  sketch = "v4" =>
    LET n == BagCardinality(window)
        k == Min(NUM_READINGS, n)
    IN  /\ Cardinality(Populated(v4_topReadings)) = k
        /\ LargestOf(FieldBag(v4_topReadings, Populated(v4_topReadings),
                              "confidence"), NUM_READINGS)
             = LargestOf(ConfidencesOf(window), k)

\* more than five accepted readings since the reset, one of them below every
\* confidence that is kept, and the kept confidences are not all the same
C1_Witness ==
  /\ sketch = "v4" /\ last.handler = "loop"
  /\ BagCardinality(window) > NUM_READINGS
  /\ \E r \in BagToSet(window) :
       \A i \in 1..NUM_READINGS : r.confidence < v4_topReadings[i].confidence
  /\ \E i, j \in 1..NUM_READINGS :
       v4_topReadings[i].confidence # v4_topReadings[j].confidence

----------------------------------------------------------------------------
(* C2 as claimed: in v4, at every report with 1 to 5 populated slots, an   *)
(* average heart rate and an average oxygen value are output, each the     *)
(* arithmetic mean of that field over the populated slots.                 *)
C2_AverageAtEveryReport ==
  (/\ sketch = "v4" /\ last.report # "none"
   /\ Cardinality(Populated(last.acc)) \in 1..NUM_READINGS) =>
    LET P == Populated(last.acc)
        c == Cardinality(P)
    IN  /\ HasLine(out, "Average Heart Rate: ")
        /\ LineOf(out, "Average Heart Rate: ")[2] * c
             = 100 * SumOver(last.acc, P, "heartRate")
        /\ HasLine(out, "Average SpO2: ")
        /\ LineOf(out, "Average SpO2: ")[2] * c
             = 100 * SumOver(last.acc, P, "oxygen")

(* C2 as amended: in v4, at every reporting interval, the averages are     *)
(* output only when all 5 slots are populated, and each is then the        *)
(* arithmetic mean of that field over the 5 slots (printed in hundredths); *)
(* with 0 to 4 populated slots no average is output and the status line    *)
(* with the number of populated slots is output instead.                   *)
C2_AverageOnlyWhenFull ==
  (sketch = "v4" /\ last.report # "none") =>
    LET P == Populated(last.acc)
        c == Cardinality(P)
    IN  IF c = NUM_READINGS
        THEN /\ HasLine(out, "Average Heart Rate: ")
             /\ LineOf(out, "Average Heart Rate: ")[2] * c
                  = 100 * SumOver(last.acc, P, "heartRate")
             /\ HasLine(out, "Average SpO2: ")
             /\ LineOf(out, "Average SpO2: ")[2] * c
                  = 100 * SumOver(last.acc, P, "oxygen")
             /\ ~HasLine(out, "Collecting high-confidence data... (")
        ELSE /\ ~HasLine(out, "Average Heart Rate: ")
             /\ ~HasLine(out, "Average SpO2: ")
             /\ HasLine(out, "Collecting high-confidence data... (")
             /\ LineOf(out, "Collecting high-confidence data... (")
                  = <<"Collecting high-confidence data... (", c, NUM_READINGS>>

\* a v4 report that prints averages over five slots holding different readings
C2_Witness ==
  /\ sketch = "v4" /\ last.report = "average"
  /\ HasLine(out, "Average Heart Rate: ")
  /\ \E i, j \in 1..NUM_READINGS :
       last.acc[i].heartRate # last.acc[j].heartRate

----------------------------------------------------------------------------
(* C3: in every sketch, an iteration of loop() that reads a reading with   *)
(* confidence 50 or less leaves the accumulation state as it was (v4: all  *)
(* of topReadings; v3: readings[] and readingCount; v2: the count and the  *)
(* four sums) up to the point where a report is computed, so the reading   *)
(* contributes to no reported average.                                     *)
C3_LowConfidenceDiscarded ==
  [][(pc = "loop" /\ body'.confidence <= 50) => last'.acc = Acc]_vars

\* a reading with confidence 50 has just been processed while readings of the
\* window were held
C3_Witness ==
  /\ last.handler = "loop" /\ body.confidence <= 50
  /\ last.report = "none" /\ ~last.stored
  /\ window # EmptyBag /\ last.acc = Acc

----------------------------------------------------------------------------
(* C4: in every sketch, right after an iteration of loop() that emitted a  *)
(* report the accumulation state is empty: v4 has confidence, heartRate    *)
(* and oxygen 0 in every slot, v3 has readingCount 0, v2 has the count and *)
(* the four sums 0.                                                        *)
C4_EmptyAfterReport ==
  last.report # "none" =>
    /\ sketch = "v4" =>
         \A i \in 1..NUM_READINGS :
           /\ v4_topReadings[i].confidence = 0
           /\ v4_topReadings[i].heartRate = 0
           /\ v4_topReadings[i].oxygen = 0
    /\ sketch = "v3" => v3_readingCount = 0
    /\ sketch = "v2" =>
         /\ v2_validReadingsCount = 0
         /\ v2_heartRateSum = 0 /\ v2_oxygenSum = 0
         /\ v2_irLedSum = 0 /\ v2_redLedSum = 0

\* a report has just been emitted over a window in which readings were held
C4_Witness ==
  /\ last.report = "average"
  /\ BagCardinality(last.closed) >= 2
  /\ last.acc # <<>>

----------------------------------------------------------------------------
(* C5 as claimed: after setup() of any sketch, for each of the four driver *)
(* calls that return a status code (begin, configSensorBpm, setPulseWidth, *)
(* setSampleRate), a non-zero code has been printed to Serial.             *)
C5_NonZeroCodePrinted ==
  last.handler = "setup" =>
    \A i \in 1..4 :
      last.codes[i] # 0 =>
        \E k \in DOMAIN out : out[k] = <<"Error: ", last.codes[i]>>

----------------------------------------------------------------------------
(* C6 as claimed: in every sketch, an iteration of loop() whose clock      *)
(* check finds at least 1000 ms elapsed since the last report time emits a *)
(* report in that iteration and updates the last report time, whatever was *)
(* accepted in the window.                                                 *)
C6_ReportWheneverDue ==
  (last.handler = "loop" /\ last.due) =>
    /\ last.report # "none"
    /\ out # <<>>
    /\ sketch = "v4" => ~AtLeast(Elapsed(v4_lastReportTime, last.at), 2)
    /\ sketch = "v3" => v3_lastDisplayTime = last.at
    /\ sketch = "v2" => v2_lastDisplayTime = last.at

----------------------------------------------------------------------------
(* C7 as claimed: in v2, every AVERAGES report is computed over exactly    *)
(* TARGET_READINGS (5) valid readings.                                     *)
C7_AveragesOverFive ==
  (sketch = "v2" /\ HasLine(out, "AVERAGES (")) =>
    /\ LineOf(out, "AVERAGES (")[2] = TARGET_READINGS
    /\ last.acc[1] = TARGET_READINGS

----------------------------------------------------------------------------
(* C8 as claimed: in v4, every report, the first one after setup()         *)
(* included, is emitted only when at least reportInterval (1000 ms) has    *)
(* elapsed since its window began (the first iteration of loop() for the   *)
(* first window, the previous report for the later ones).                  *)
C8_ReportCoversOneSecond ==
  (sketch = "v4" /\ last.report # "none") => AtLeast(last.span, reportInterval)

----------------------------------------------------------------------------
\* the bag of the members of the sequence s
SeqBag(s) == [v \in {s[i] : i \in DOMAIN s} |->
                Cardinality({i \in DOMAIN s : s[i] = v})]

(* C9 as claimed: in v3, at every report, readings[] holds every reading   *)
(* with confidence > 50 read since the previous report (none was dropped   *)
(* by the capacity guard, and readingCount is at most MAX_READINGS),       *)
(* sortReadingsByConfidence leaves a permutation of them in non-increasing *)
(* order of confidence, and the averages are the sums over the first       *)
(* min(5, n) of them divided by min(5, n), n the number of those readings. *)
C9_TopFiveOfAllAccepted ==
  (sketch = "v3" /\ last.report = "average") =>
    LET n == BagCardinality(last.closed)
        k == Min(5, n)
        readingCount == last.acc[1]
        readings == last.acc[2]
        sorted == sortReadingsByConfidence(readings, readingCount)
    IN  /\ readingCount <= MAX_READINGS
        /\ SeqBag(readings) = last.closed
        /\ LineOf(out, "Total readings collected: ")[2] = n
        /\ SeqBag(sorted) = SeqBag(readings)
        /\ \A i \in 1..(readingCount - 1) :
             sorted[i].confidence >= sorted[i + 1].confidence
        /\ LineOf(out, "=== AVERAGED RESULTS (Top ")[2] = k
        /\ LineOf(out, "Average Confidence: ")[2]
             = PrintFloat(SumSeq(LargestOf(ConfidencesOf(last.closed), k)), k, 1,
                          mantissa)
        /\ LineOf(out, "Average Heartrate: ")[2]
             = PrintFloat(SumOver(sorted, 1..k, "heartRate"), k, 1, mantissa)
        /\ LineOf(out, "Average Blood Oxygen: ")[2]
             = PrintFloat(SumOver(sorted, 1..k, "oxygen"), k, 1, mantissa)

----------------------------------------------------------------------------
\* the readings of the bag w that v2 accepts: confidence > 50, a heart rate
\* and an oxygen value above 0
AcceptedIn(w) ==
  LET S == {r \in BagToSet(w) :
              r.confidence > 50 /\ r.heartRate > 0 /\ r.oxygen > 0}
  IN  IF S = {} THEN EmptyBag ELSE [r \in S |-> CopiesIn(r, w)]

(* C10: in v2, at every AVERAGES report validReadingsCount is between 1    *)
(* and 5 and is the number of readings accepted (confidence > 50,          *)
(* heartrate > 0, oxygen > 0) since the last reset, and each printed       *)
(* average is the sum of that field over those readings divided by that    *)
(* count (to the printed precision); when no reading was accepted there is *)
(* no division and the 'No valid readings' line is printed instead.        *)
C10_AveragesOverAccepted ==
  (sketch = "v2" /\ last.report # "none") =>
    LET A == AcceptedIn(last.closed)
        n == BagCardinality(A)
    IN  IF n = 0
        THEN /\ ~HasLine(out, "AVERAGES (")
             /\ ~HasLine(out, "Average Heart Rate: ")
             /\ HasLine(out,
                  "No valid readings (confidence > 50) in the last second.")
        ELSE /\ n \in 1..5
             /\ last.acc[1] = n
             /\ LineOf(out, "AVERAGES (")[2] = n
             /\ LineOf(out, "Average Heart Rate: ")[2]
                  = PrintFloat(BagSum(A, "heartRate"), n, 1, mantissa)
             /\ LineOf(out, "Average Blood Oxygen: ")[2]
                  = PrintFloat(BagSum(A, "oxygen"), n, 1, mantissa)
             /\ LineOf(out, "Average IR LED counts: ")[2]
                  = PrintFloat(BagSum(A, "irLed"), n, 0, mantissa)
             /\ LineOf(out, "Average Red LED counts: ")[2]
                  = PrintFloat(BagSum(A, "redLed"), n, 0, mantissa)
             /\ ~HasLine(out,
                  "No valid readings (confidence > 50) in the last second.")

\* an AVERAGES report over two to four accepted readings with different heart
\* rates, in a window that also held a confident reading v2 rejects
C10_Witness ==
  /\ sketch = "v2" /\ last.report = "average"
  /\ BagCardinality(AcceptedIn(last.closed)) \in 2..4
  /\ BagCardinality(last.closed) > BagCardinality(AcceptedIn(last.closed))
  /\ Cardinality({r.heartRate : r \in BagToSet(AcceptedIn(last.closed))}) >= 2

----------------------------------------------------------------------------
(* C11: in every sketch the elapsed-time test, the unsigned 32-bit         *)
(* difference of millis() and the last report time compared with 1000,     *)
(* fires exactly when at least 1000 ms have really passed since the last   *)
(* report time was set, also when millis() has wrapped from 2^32 - 1 to 0  *)
(* in between: the wrap brings no premature report and suppresses none.    *)
C11_WrapSafeTest ==
  last.handler = "loop" =>
    /\ last.due <=> (real.testAt - real.testRef >= 1000)
    /\ sketch \in {"v2", "v4"} =>
         (real.testAt - real.testRef >= 1000 => last.report # "none")
    /\ sketch \in {"v3", "v4"} =>
         (last.report # "none" => real.testAt - real.testRef >= 1000)

\* a report made after millis() wrapped, for a window that began before it
C11_Witness ==
  /\ last.handler = "loop" /\ last.due /\ last.report # "none"
  /\ last.at[1] = 0
  /\ last.at[2] < real.testAt - real.testRef
  /\ windowStart[1] = 0

====
